---- MODULE Spec2Model ----
(***************************************************************************)
(* Model of the query routing and multi-engine synthesis workflow of the   *)
(* YouTube trends analysis system (src/src/agents).                        *)
(*                                                                         *)
(* Python values are represented as follows.                               *)
(*   str            a sequence of string tokens; f-string formatting and   *)
(*                  concatenation are \o.  A query is a sequence of        *)
(*                  one-character tokens.                                  *)
(*   Optional[T]    None is <<>>, a value v is <<v>>.                      *)
(*   dict           a record; a missing key is a missing field; {} is      *)
(*                  EmptyDict.                                             *)
(*   list of str    a sequence of strings.                                 *)
(*   float in [0,1] an integer number of tenths.                           *)
(***************************************************************************)
EXTENDS Integers, Sequences, FiniteSets, TLC

VARIABLES
    agents,     \* keys of MultiAgentOrchestrator.agents
    pc,         \* position of the process_query call in the workflow
    state,      \* the AgentState threaded through the graph
    response,   \* Optional: the dictionary process_query returned
    trace,      \* history: nodes entered and collaborator calls, in order
    env,        \* history: what each collaborator did in this execution
    routing,    \* the last routing computed by a router called on its own
    prev,       \* Optional: an earlier execution, remembered for comparison
    execs,      \* concurrent process_query calls: position and locals of each
    slots,      \* the AgentState dictionaries of the concurrent calls
    direct      \* the last direct call of a method: arguments and outcome

\* the variables no step of a single process_query call touches
aux == <<routing, prev, execs, slots, direct>>

vars == <<agents, pc, state, response, trace, env, aux>>

-----------------------------------------------------------------------------
(* Bounds and the values collaborators may produce *)

MaxQueryLen == 2

Whitespace == {" ", "\t", "\n"}
QueryChars == {" ", "x"}

RECURSIVE SeqsUpTo(_, _)
SeqsUpTo(S, n) ==
    IF n = 0 THEN {<<>>}
    ELSE LET shorter == SeqsUpTo(S, n - 1)
         IN  shorter \cup {Append(s, c) : s \in {t \in shorter : Len(t) = n - 1}, c \in S}

Queries == SeqsUpTo(QueryChars, MaxQueryLen)

\* messages of the exceptions a collaborator may raise
ExceptionMessages == {<<"boom">>, <<"timeout">>}
\* output texts of the SQL agent executor
SqlOutputs == {<<"42 videos">>}
\* answers the vector agent generates for a non-empty result list
VectorAnswers == {<<"3 cooking videos">>}
\* contents the synthesis LLM may return
LlmContents == {<<"merged narrative">>}
\* confidences (tenths) a successful classification may carry
Confidences == {6, 9}
QueryTypes == {"sql", "vector", "hybrid", "unknown"}

None == <<>>
Some(v) == <<v>>
EmptyDict == [k \in {} |-> k]

-----------------------------------------------------------------------------
(* Text helpers *)

IsWhitespace(c) == c \in Whitespace

RECURSIVE LStrip(_)
LStrip(s) == IF s # <<>> /\ IsWhitespace(Head(s)) THEN LStrip(Tail(s)) ELSE s

RECURSIVE RStrip(_)
RStrip(s) ==
    IF s # <<>> /\ IsWhitespace(s[Len(s)]) THEN RStrip(SubSeq(s, 1, Len(s) - 1)) ELSE s

\* str.strip()
Strip(s) == RStrip(LStrip(s))

\* needle in hay (Python substring test on the token representation)
Contains(hay, needle) ==
    \E i \in 0..(Len(hay) - Len(needle)) : SubSeq(hay, i + 1, i + Len(needle)) = needle

-----------------------------------------------------------------------------
(* BaseAgent *)

\* BaseAgent.validate_query for a str argument
validate_query(query) ==
    IF Len(query) = 0 THEN FALSE ELSE Len(Strip(query)) > 0

\* Python objects a caller may pass where a str is expected
PyNone == [type |-> "NoneType"]
PyInt(n) == [type |-> "int", int |-> n]
PyList(n) == [type |-> "list", len |-> n]
PyStr(s) == [type |-> "str", str |-> s]

\* bool(obj)
Truthy(obj) ==
    CASE obj.type = "NoneType" -> FALSE
      [] obj.type = "int" -> obj.int # 0
      [] obj.type = "list" -> obj.len > 0
      [] obj.type = "str" -> Len(obj.str) > 0

\* variant of BaseAgent.validate_query: the text is not stripped
validate_query_any_NoStrip(obj) ==
    IF ~Truthy(obj) \/ obj.type # "str" THEN FALSE ELSE Len(obj.str) > 0

\* BaseAgent.validate_query for any argument
validate_query_any(obj) ==
    IF ~Truthy(obj) \/ obj.type # "str" THEN FALSE ELSE Len(Strip(obj.str)) > 0

\* the arguments validate_query is called with
ValidateChars == {" ", "\t", "x"}
ValidateArguments ==
    {PyNone, PyInt(0), PyInt(123), PyList(0), PyList(2)}
        \cup {PyStr(s) : s \in SeqsUpTo(ValidateChars, MaxQueryLen + 1)}
        \cup {PyStr(<<"t", "e", "s", "t", " ", "q", "u", "e", "r", "y">>),
              PyStr(<<" ", " ", "t", "e", "s", "t", " ", " ">>)}

\* BaseAgent.format_response (metadata omitted: nothing reads it)
format_response(name, success, data, error) ==
    [agent |-> name, success |-> success, data |-> data, error |-> error]

-----------------------------------------------------------------------------
(* Outcome of a call: the value it returned or the exception it raised *)

Returned(v) == [raised |-> FALSE, value |-> v]
Raised(m) == [raised |-> TRUE, msg |-> m]

\* dict.get(key, default)
DictGet(d, k, default) == IF k \in DOMAIN d THEN d[k] ELSE default

\* truth value of an Optional[dict] / Optional[str]
TruthyDict(o) == o # None /\ DOMAIN o[1] # {}
TruthyStr(o) == o # None /\ o[1] # <<>>

\* str() of an Optional[str] inside an f-string
FormatOpt(o) == IF o = None THEN <<"None">> ELSE o[1]

-----------------------------------------------------------------------------
(* SQLAgent *)

\* what agent_executor.invoke may do: return an output text or raise
SqlExecutorOutcomes ==
    {[kind |-> "output", text |-> t] : t \in SqlOutputs}
        \cup {[kind |-> "error", text |-> m] : m \in ExceptionMessages}

\* SQLAgent.process_query
SQLAgent_process_query(query, exec) ==
    IF ~validate_query(query)
    THEN format_response("SQLAgent", FALSE, None,
                         Some(<<"Invalid query: Query cannot be empty">>))
    ELSE IF exec.kind = "output"
    THEN format_response("SQLAgent", TRUE,
                         Some([answer |-> exec.text, query_type |-> "sql",
                               source |-> "structured_database"]),
                         None)
    ELSE format_response("SQLAgent", FALSE, None,
                         Some(<<"SQL Agent error: ">> \o exec.text))

-----------------------------------------------------------------------------
(* VectorAgent *)

\* what search_videos may do: return hits (for which an answer text is then
\* generated), return an empty list, or raise
VectorSearchOutcomes ==
    {[kind |-> "hits", text |-> t] : t \in VectorAnswers}
        \cup {[kind |-> "empty", text |-> <<>>]}
        \cup {[kind |-> "error", text |-> m] : m \in ExceptionMessages}

\* VectorAgent._generate_no_results_message with filters=None
generate_no_results_message(query) ==
    <<"No videos found matching '">> \o query \o <<"'">>
        \o <<".\n\nTry:\n">>
        \o <<"- Using different keywords\n">>
        \o <<"- Removing or relaxing filters\n">>
        \o <<"- Using more general terms">>

\* variant of VectorAgent.process_query: an empty result list is reported as
\* a failure
VectorAgent_process_query_EmptyFails(query, search) ==
    IF ~validate_query(query)
    THEN format_response("VectorAgent", FALSE, None,
                         Some(<<"Invalid query: Query cannot be empty or None">>))
    ELSE IF search.kind = "error"
    THEN format_response("VectorAgent", FALSE, None,
                         Some(<<"Vector search failed: ">> \o search.text))
    ELSE IF search.kind = "empty"
    THEN format_response("VectorAgent", FALSE, None,
                         Some(generate_no_results_message(query)))
    ELSE format_response("VectorAgent", TRUE,
                         Some([answer |-> search.text,
                               results |-> <<"hit">>, query_type |-> "vector",
                               source |-> "semantic_search"]),
                         None)

\* VectorAgent.process_query called without keyword arguments
VectorAgent_process_query(query, search) ==
    IF ~validate_query(query)
    THEN format_response("VectorAgent", FALSE, None,
                         Some(<<"Invalid query: Query cannot be empty or None">>))
    ELSE IF search.kind = "error"
    THEN format_response("VectorAgent", FALSE, None,
                         Some(<<"Vector search failed: ">> \o search.text))
    ELSE IF search.kind = "empty"
    THEN format_response("VectorAgent", TRUE,
                         Some([answer |-> generate_no_results_message(query),
                               results |-> <<>>, query_type |-> "vector",
                               source |-> "semantic_search"]),
                         None)
    ELSE format_response("VectorAgent", TRUE,
                         Some([answer |-> search.text,
                               results |-> <<"hit">>, query_type |-> "vector",
                               source |-> "semantic_search"]),
                         None)

-----------------------------------------------------------------------------
(* QueryRouter *)

\* what the classification chain may do: return a parsed classification or
\* raise (LLM failure or malformed output rejected by the parser)
ChainOutcomes ==
    {[kind |-> "parsed", type |-> t, confidence |-> c] :
        t \in QueryTypes, c \in Confidences}
        \cup {[kind |-> "error", text |-> m] : m \in ExceptionMessages}

\* values an LLM may write into the two validated fields of its output
OutputTypes == QueryTypes \cup {"other"}
OutputConfidences == {-1, 0, 5, 10, 15}

ValidationError == <<"validation error for QueryClassification">>

\* variant of QueryClassification: the confidence has no upper bound
QueryClassification_NoUpperBound(query_type, confidence, reasoning, suggested_agent) ==
    IF query_type \in QueryTypes /\ confidence >= 0
    THEN Returned([query_type |-> query_type, confidence |-> confidence,
                   reasoning |-> reasoning, suggested_agent |-> suggested_agent])
    ELSE Raised(ValidationError)

\* QueryClassification(...): the pydantic model validates query_type against
\* the QueryType enum and confidence against ge=0.0, le=1.0 (in tenths)
QueryClassification(query_type, confidence, reasoning, suggested_agent) ==
    IF query_type \in QueryTypes /\ confidence >= 0 /\ confidence <= 10
    THEN Returned([query_type |-> query_type, confidence |-> confidence,
                   reasoning |-> reasoning, suggested_agent |-> suggested_agent])
    ELSE Raised(ValidationError)

\* self.chain.invoke when the LLM answered with these two field values: the
\* PydanticOutputParser at the end of the chain constructs the object
ParsedChain(query_type, confidence) ==
    LET built == QueryClassification(query_type, confidence,
                                     <<"reasoning">>, <<"agent">>)
    IN  IF built.raised
        THEN [kind |-> "error", text |-> built.msg]
        ELSE [kind |-> "parsed", type |-> built.value.query_type,
              confidence |-> built.value.confidence]

\* variant of QueryRouter.classify_query: a failed classification defaults to
\* semantic search, as the rule-based router does
classify_query_DefaultsToVector(query, chain) ==
    IF chain.kind = "parsed"
    THEN [query_type |-> chain.type, confidence |-> chain.confidence,
          reasoning |-> <<"reasoning">>, suggested_agent |-> <<"agent">>]
    ELSE [query_type |-> "vector", confidence |-> 5,
          reasoning |-> <<"Classification failed: ">> \o chain.text,
          suggested_agent |-> <<"vector">>]

\* QueryRouter.classify_query
classify_query(query, chain) ==
    IF chain.kind = "parsed"
    THEN [query_type |-> chain.type, confidence |-> chain.confidence,
          reasoning |-> <<"reasoning">>, suggested_agent |-> <<"agent">>]
    ELSE [query_type |-> "unknown", confidence |-> 0,
          reasoning |-> <<"Classification failed: ">> \o chain.text,
          suggested_agent |-> <<"none">>]

\* QueryRouter._determine_execution_strategy
determine_execution_strategy(query_type) ==
    CASE query_type = "sql" -> "single_agent"
      [] query_type = "vector" -> "single_agent"
      [] query_type = "hybrid" -> "multi_agent_parallel"
      [] OTHER -> "fallback"

\* variant of agents_to_use: a hybrid query is routed to the SQL agent only
agents_to_use_HybridSqlOnly(query_type) ==
    CASE query_type = "sql" -> <<"sql">>
      [] query_type = "vector" -> <<"vector">>
      [] query_type = "hybrid" -> <<"sql">>
      [] OTHER -> <<>>

\* the if/elif chain of QueryRouter.route_query
agents_to_use(query_type) ==
    CASE query_type = "sql" -> <<"sql">>
      [] query_type = "vector" -> <<"vector">>
      [] query_type = "hybrid" -> <<"sql", "vector">>
      [] OTHER -> <<>>

\* QueryRouter.route_query
route_query(query, chain) ==
    LET classification == classify_query(query, chain)
    IN  [query |-> query,
         classification |->
            [type |-> classification.query_type,
             confidence |-> classification.confidence,
             reasoning |-> classification.reasoning,
             suggested_agent |-> classification.suggested_agent],
         agents |-> agents_to_use(classification.query_type),
         execution_strategy |->
            determine_execution_strategy(classification.query_type)]

-----------------------------------------------------------------------------
(* SimpleQueryRouter *)

\* str.lower() on the characters of a query
LowerMap ==
    [A |-> "a", B |-> "b", C |-> "c", D |-> "d", E |-> "e", F |-> "f", G |-> "g", H |-> "h", I |-> "i", J |-> "j", K |-> "k", L |-> "l", M |-> "m",
     N |-> "n", O |-> "o", P |-> "p", Q |-> "q", R |-> "r", S |-> "s", T |-> "t", U |-> "u", V |-> "v", W |-> "w", X |-> "x", Y |-> "y", Z |-> "z"]
LowerChar(c) == IF c \in DOMAIN LowerMap THEN LowerMap[c] ELSE c
\* variant of Lower: the text is left as it is
Lower_CaseSensitive(s) == s
Lower(s) == [i \in DOMAIN s |-> LowerChar(s[i])]

\* SimpleQueryRouter.SQL_KEYWORDS
SQL_KEYWORDS ==
    << <<"h", "o", "w", " ", "m", "a", "n", "y">>,
       <<"c", "o", "u", "n", "t">>,
       <<"t", "o", "t", "a", "l">>,
       <<"a", "v", "e", "r", "a", "g", "e">>,
       <<"s", "u", "m">>,
       <<"t", "o", "p">>,
       <<"b", "o", "t", "t", "o", "m">>,
       <<"m", "o", "s", "t">>,
       <<"l", "e", "a", "s", "t">>,
       <<"h", "i", "g", "h", "e", "s", "t">>,
       <<"l", "o", "w", "e", "s", "t">>,
       <<"c", "o", "m", "p", "a", "r", "e">>,
       <<"c", "o", "m", "p", "a", "r", "i", "s", "o", "n">>,
       <<"s", "t", "a", "t", "i", "s", "t", "i", "c", "s">>,
       <<"s", "t", "a", "t">>,
       <<"n", "u", "m", "b", "e", "r", " ", "o", "f">>,
       <<"p", "e", "r", "c", "e", "n", "t", "a", "g", "e">>,
       <<"r", "a", "t", "i", "o">> >>

\* SimpleQueryRouter.VECTOR_KEYWORDS
VECTOR_KEYWORDS ==
    << <<"f", "i", "n", "d">>,
       <<"s", "e", "a", "r", "c", "h">>,
       <<"s", "i", "m", "i", "l", "a", "r">>,
       <<"l", "i", "k", "e">>,
       <<"a", "b", "o", "u", "t">>,
       <<"r", "e", "l", "a", "t", "e", "d", " ", "t", "o">>,
       <<"v", "i", "d", "e", "o", "s", " ", "o", "n">>,
       <<"c", "o", "n", "t", "e", "n", "t", " ", "a", "b", "o", "u", "t">>,
       <<"s", "h", "o", "w", " ", "m", "e">>,
       <<"r", "e", "c", "o", "m", "m", "e", "n", "d">>,
       <<"s", "u", "g", "g", "e", "s", "t", "i", "o", "n">> >>

\* sum(1 for kw in keywords if kw in query_lower)
KeywordScore(keywords, query_lower) ==
    Cardinality({i \in DOMAIN keywords : Contains(query_lower, keywords[i])})

\* min(a, b)
Min(a, b) == IF a <= b THEN a ELSE b

\* variant of SimpleQueryRouter.classify_query: the confidence of a dominant
\* side is not capped
SimpleQueryRouter_classify_query_Uncapped(query) ==
    LET query_lower == Lower(query)
        sql_score == KeywordScore(SQL_KEYWORDS, query_lower)
        vector_score == KeywordScore(VECTOR_KEYWORDS, query_lower)
        classification(query_type, confidence, reasoning) ==
            [query_type |-> query_type, confidence |-> confidence,
             reasoning |-> reasoning, suggested_agent |-> <<query_type>>]
    IN  IF sql_score > vector_score
        THEN classification("sql", 5 + sql_score,
                            <<"Query contains analytical keywords">>)
        ELSE IF vector_score > sql_score
        THEN classification("vector", 5 + vector_score,
                            <<"Query contains semantic search keywords">>)
        ELSE IF sql_score > 0 /\ vector_score > 0
        THEN classification("hybrid", 6,
                            <<"Query contains both analytical and semantic keywords">>)
        ELSE classification("vector", 5,
                            <<"No clear indicators, defaulting to semantic search">>)

\* variant of SimpleQueryRouter.classify_query: equal positive scores go to
\* semantic search
SimpleQueryRouter_classify_query_TieIsVector(query) ==
    LET query_lower == Lower(query)
        sql_score == KeywordScore(SQL_KEYWORDS, query_lower)
        vector_score == KeywordScore(VECTOR_KEYWORDS, query_lower)
        classification(query_type, confidence, reasoning) ==
            [query_type |-> query_type, confidence |-> confidence,
             reasoning |-> reasoning, suggested_agent |-> <<query_type>>]
    IN  IF sql_score > vector_score
        THEN classification("sql", Min(7, 5 + sql_score),
                            <<"Query contains analytical keywords">>)
        ELSE IF vector_score > sql_score
        THEN classification("vector", Min(7, 5 + vector_score),
                            <<"Query contains semantic search keywords">>)
        ELSE classification("vector", 5,
                            <<"No clear indicators, defaulting to semantic search">>)

\* SimpleQueryRouter.classify_query (confidence in tenths)
SimpleQueryRouter_classify_query(query) ==
    LET query_lower == Lower(query)
        sql_score == KeywordScore(SQL_KEYWORDS, query_lower)
        vector_score == KeywordScore(VECTOR_KEYWORDS, query_lower)
        classification(query_type, confidence, reasoning) ==
            [query_type |-> query_type, confidence |-> confidence,
             reasoning |-> reasoning, suggested_agent |-> <<query_type>>]
    IN  IF sql_score > vector_score
        THEN classification("sql", Min(7, 5 + sql_score),
                            <<"Query contains analytical keywords">>)
        ELSE IF vector_score > sql_score
        THEN classification("vector", Min(7, 5 + vector_score),
                            <<"Query contains semantic search keywords">>)
        ELSE IF sql_score > 0 /\ vector_score > 0
        THEN classification("hybrid", 6,
                            <<"Query contains both analytical and semantic keywords">>)
        ELSE classification("vector", 5,
                            <<"No clear indicators, defaulting to semantic search">>)

\* the if/elif chain of SimpleQueryRouter.route_query
Simple_agents_to_use(query_type) ==
    IF query_type = "sql" THEN <<"sql">>
    ELSE IF query_type = "vector" THEN <<"vector">>
    ELSE IF query_type = "hybrid" THEN <<"sql", "vector">>
    ELSE <<>>

\* SimpleQueryRouter.route_query
SimpleQueryRouter_route_query(query) ==
    LET classification == SimpleQueryRouter_classify_query(query)
        routed == Simple_agents_to_use(classification.query_type)
    IN  [query |-> query,
         classification |->
            [type |-> classification.query_type,
             confidence |-> classification.confidence,
             reasoning |-> classification.reasoning,
             suggested_agent |-> classification.suggested_agent],
         agents |-> routed,
         execution_strategy |->
            IF Len(routed) = 1 THEN "single_agent" ELSE "multi_agent_parallel"]

\* queries given to the rule-based router: up to MaxWords words joined by
\* single spaces
MaxWords == 2

SimpleWords ==
    { <<"T", "o", "p">>,
      <<"c", "o", "u", "n", "t">>,
      <<"F", "i", "n", "d">>,
      <<"l", "i", "k", "e", "s">>,
      <<"s", "t", "a", "t", "i", "s", "t", "i", "c", "s">>,
      <<"v", "i", "d", "e", "o", "s">>,
      <<"a", "b", "o", "u", "t">> }

RECURSIVE Phrases(_)
Phrases(n) ==
    IF n = 0 THEN {<<>>}
    ELSE LET shorter == Phrases(n - 1)
         IN  shorter \cup SimpleWords
                \cup {p \o <<" ">> \o w : p \in shorter \ {<<>>}, w \in SimpleWords}

SimpleQueries == Phrases(MaxWords)

\* the analytical queries of test_sql_query_classification
SqlTestQueries ==
    { <<"H", "o", "w", " ", "m", "a", "n", "y", " ", "v", "i", "d", "e", "o", "s", " ", "a", "r", "e", " ", "t", "h", "e", "r", "e", "?">>,
      <<"C", "o", "u", "n", "t", " ", "t", "h", "e", " ", "t", "o", "t", "a", "l", " ", "v", "i", "e", "w", "s">>,
      <<"T", "o", "p", " ", "1", "0", " ", "c", "h", "a", "n", "n", "e", "l", "s">>,
      <<"A", "v", "e", "r", "a", "g", "e", " ", "l", "i", "k", "e", "s", " ", "p", "e", "r", " ", "c", "a", "t", "e", "g", "o", "r", "y">>,
      <<"C", "o", "m", "p", "a", "r", "e", " ", "M", "u", "s", "i", "c", " ", "a", "n", "d", " ", "G", "a", "m", "i", "n", "g">> }

\* the content-discovery queries of test_vector_query_classification
VectorTestQueries ==
    { <<"F", "i", "n", "d", " ", "v", "i", "d", "e", "o", "s", " ", "a", "b", "o", "u", "t", " ", "c", "o", "o", "k", "i", "n", "g">>,
      <<"S", "e", "a", "r", "c", "h", " ", "f", "o", "r", " ", "g", "a", "m", "i", "n", "g", " ", "c", "o", "n", "t", "e", "n", "t">>,
      <<"V", "i", "d", "e", "o", "s", " ", "s", "i", "m", "i", "l", "a", "r", " ", "t", "o", " ", "t", "e", "c", "h", " ", "r", "e", "v", "i", "e", "w", "s">>,
      <<"S", "h", "o", "w", " ", "m", "e", " ", "e", "d", "u", "c", "a", "t", "i", "o", "n", "a", "l", " ", "v", "i", "d", "e", "o", "s">>,
      <<"C", "o", "n", "t", "e", "n", "t", " ", "r", "e", "l", "a", "t", "e", "d", " ", "t", "o", " ", "f", "i", "t", "n", "e", "s", "s">> }

-----------------------------------------------------------------------------
(* MultiAgentOrchestrator: the workflow nodes *)

InList(x, list) == \E i \in DOMAIN list : list[i] = x

\* the initial_state dictionary of process_query
initial_state(query) ==
    [query |-> query,
     routing_info |-> EmptyDict,
     sql_result |-> None,
     vector_result |-> None,
     final_response |-> None,
     error |-> None,
     metadata |-> EmptyDict]

\* _route_query; call is what self.router.route_query did
_route_query(st, call) ==
    IF ~call.raised
    THEN [st EXCEPT !.routing_info = call.value]
    ELSE [st EXCEPT !.error = Some(<<"Routing failed: ">> \o call.msg),
                    !.routing_info = [agents |-> <<>>,
                                      classification |-> [type |-> "unknown"]]]

\* _routing_decision
_routing_decision(st) ==
    IF TruthyStr(st.error) THEN "end"
    ELSE LET routed == DictGet(st.routing_info, "agents", <<>>)
         IN  IF routed = <<>> THEN "end"
             ELSE IF InList("sql", routed) /\ InList("vector", routed) THEN "both"
             ELSE IF InList("sql", routed) THEN "sql"
             ELSE IF InList("vector", routed) THEN "vector"
             ELSE "end"

\* variant of RouteEdges: a query with no routable engine is routed again
RouteEdges_EndReroutes(decision) ==
    CASE decision = "sql" -> "sql_agent"
      [] decision = "vector" -> "vector_agent"
      [] decision = "both" -> "sql_agent"
      [] decision = "end" -> "route"

\* variant of RouteEdges: a vector query passes through the SQL agent
RouteEdges_VectorThroughSql(decision) ==
    CASE decision = "sql" -> "sql_agent"
      [] decision = "vector" -> "sql_agent"
      [] decision = "both" -> "sql_agent"
      [] decision = "end" -> "end"

\* variant of RouteEdges: a hybrid query starts with the vector agent
RouteEdges_VectorFirst(decision) ==
    CASE decision = "sql" -> "sql_agent"
      [] decision = "vector" -> "vector_agent"
      [] decision = "both" -> "vector_agent"
      [] decision = "end" -> "end"

\* the conditional edges leaving "route" in _build_graph
RouteEdges(decision) ==
    CASE decision = "sql" -> "sql_agent"
      [] decision = "vector" -> "vector_agent"
      [] decision = "both" -> "sql_agent"
      [] decision = "end" -> "end"

\* the result a node records when process_query raised
NodeExceptionResult(msg) == [success |-> FALSE, error |-> Some(msg)]

\* _execute_sql_agent; call is what self.agents['sql'].process_query did
_execute_sql_agent(st, available, call) ==
    IF available
    THEN IF ~call.raised
         THEN [st EXCEPT !.sql_result = Some(call.value)]
         ELSE [st EXCEPT !.sql_result = Some(NodeExceptionResult(call.msg))]
    ELSE [st EXCEPT !.sql_result =
                Some([success |-> FALSE, error |-> Some(<<"SQL Agent not available">>)])]

\* _execute_vector_agent; call is what self.agents['vector'].process_query did
_execute_vector_agent(st, available, call) ==
    IF available
    THEN IF ~call.raised
         THEN [st EXCEPT !.vector_result = Some(call.value)]
         ELSE [st EXCEPT !.vector_result = Some(NodeExceptionResult(call.msg))]
    ELSE [st EXCEPT !.vector_result =
                Some([success |-> FALSE, error |-> Some(<<"Vector Agent not available">>)])]

\* variant of _check_if_hybrid: a failed SQL result sends the workflow back
\* to the SQL agent
_check_if_hybrid_RetriesSql(st) ==
    LET routed == DictGet(st.routing_info, "agents", <<>>)
    IN  IF st.sql_result # None /\ ~DictGet(st.sql_result[1], "success", FALSE)
        THEN "sql_agent"
        ELSE IF InList("vector", routed) /\ ~TruthyDict(st.vector_result)
        THEN "vector_agent"
        ELSE "synthesize"

\* variant of _check_if_hybrid: the vector agent runs only after a
\* successful SQL result
_check_if_hybrid_AfterSuccessOnly(st) ==
    LET routed == DictGet(st.routing_info, "agents", <<>>)
    IN  IF /\ InList("vector", routed)
           /\ ~TruthyDict(st.vector_result)
           /\ st.sql_result # None
           /\ st.sql_result[1].success
        THEN "vector_agent"
        ELSE "synthesize"

\* _check_if_hybrid (its edge map in _build_graph is the identity)
_check_if_hybrid(st) ==
    LET routed == DictGet(st.routing_info, "agents", <<>>)
    IN  IF InList("vector", routed) /\ ~TruthyDict(st.vector_result)
        THEN "vector_agent"
        ELSE "synthesize"

-----------------------------------------------------------------------------
(* MultiAgentOrchestrator: synthesis *)

Apology == <<"I couldn't process your query. Please try rephrasing.">>

\* str() of the UnboundLocalError raised when the except clause of
\* _synthesize_hybrid_response reads a local that was never bound
UnboundLocalMessage(name) ==
    <<"local variable '", name, "' referenced before assignment">>

\* result.get('data', {}) : an Optional dict
ResultData(result) == DictGet(result, "data", Some(EmptyDict))

\* _synthesize_hybrid_response reaches self.llm.invoke only when both
\* .get('data', {}).get('answer', ...) lines evaluated without raising
HybridReachesLlm(sql_result, vector_result) ==
    ResultData(sql_result) # None /\ ResultData(vector_result) # None

\* variant of _synthesize_hybrid_response: the fallback keeps the SQL answer
\* only
_synthesize_hybrid_response_SqlOnlyFallback(query, sql_result, vector_result, llm) ==
    IF ResultData(sql_result) = None
    THEN Raised(UnboundLocalMessage("sql_answer"))
    ELSE IF ResultData(vector_result) = None
    THEN Raised(UnboundLocalMessage("vector_answer"))
    ELSE IF ~llm.raised
    THEN Returned(llm.value)
    ELSE Returned(<<"SQL Analysis: ">>
                    \o DictGet(ResultData(sql_result)[1], "answer", <<"No SQL result">>))

\* variant of _synthesize_hybrid_response: a failure of self.llm.invoke
\* propagates instead of falling back to the concatenation
_synthesize_hybrid_response_LlmPropagates(query, sql_result, vector_result, llm) ==
    IF ResultData(sql_result) = None
    THEN Raised(UnboundLocalMessage("sql_answer"))
    ELSE IF ResultData(vector_result) = None
    THEN Raised(UnboundLocalMessage("vector_answer"))
    ELSE IF ~llm.raised THEN Returned(llm.value) ELSE Raised(llm.msg)

\* _synthesize_hybrid_response; llm is what self.llm.invoke did
_synthesize_hybrid_response(query, sql_result, vector_result, llm) ==
    IF ResultData(sql_result) = None
    THEN Raised(UnboundLocalMessage("sql_answer"))
    ELSE IF ResultData(vector_result) = None
    THEN Raised(UnboundLocalMessage("vector_answer"))
    ELSE LET sql_answer ==
                DictGet(ResultData(sql_result)[1], "answer", <<"No SQL result">>)
             vector_answer ==
                DictGet(ResultData(vector_result)[1], "answer", <<"No vector result">>)
         IN  IF ~llm.raised
             THEN Returned(llm.value)
             ELSE Returned(<<"SQL Analysis: ">> \o sql_answer
                            \o <<"\n\nSemantic Search: ">> \o vector_answer)

\* variant of SingleAgentResponse: a failed result is answered with the bare
\* error text
SingleAgentResponse_BareError(result) ==
    IF DictGet(result, "success", FALSE)
    THEN IF "data" \notin DOMAIN result THEN Raised(<<"'data'">>)
         ELSE IF result.data = None
         THEN Raised(<<"'NoneType' object is not subscriptable">>)
         ELSE IF "answer" \notin DOMAIN result.data[1] THEN Raised(<<"'answer'">>)
         ELSE Returned(result.data[1].answer)
    ELSE Returned(FormatOpt(DictGet(result, "error", Some(<<"Unknown error">>))))

\* the single-agent branch of _synthesize_response
SingleAgentResponse(result) ==
    IF DictGet(result, "success", FALSE)
    THEN IF "data" \notin DOMAIN result THEN Raised(<<"'data'">>)
         ELSE IF result.data = None
         THEN Raised(<<"'NoneType' object is not subscriptable">>)
         ELSE IF "answer" \notin DOMAIN result.data[1] THEN Raised(<<"'answer'">>)
         ELSE Returned(result.data[1].answer)
    ELSE Returned(<<"Error: ">>
                    \o FormatOpt(DictGet(result, "error", Some(<<"Unknown error">>))))

\* the "Add metadata" statement of _synthesize_response
SynthesisMetadata(routing_info) ==
    IF "classification" \notin DOMAIN routing_info THEN Raised(<<"'classification'">>)
    ELSE IF "type" \notin DOMAIN routing_info.classification THEN Raised(<<"'type'">>)
    ELSE IF "confidence" \notin DOMAIN routing_info.classification
    THEN Raised(<<"'confidence'">>)
    ELSE Returned([agents_used |-> DictGet(routing_info, "agents", <<>>),
                   query_type |-> routing_info.classification.type,
                   confidence |-> routing_info.classification.confidence])

\* _synthesize_response; llm is what self.llm.invoke does if it is reached
_synthesize_response(st, llm) ==
    LET sql_result == st.sql_result
        vector_result == st.vector_result
        answer ==
            IF TruthyDict(sql_result) /\ ~TruthyDict(vector_result)
            THEN SingleAgentResponse(sql_result[1])
            ELSE IF TruthyDict(vector_result) /\ ~TruthyDict(sql_result)
            THEN SingleAgentResponse(vector_result[1])
            ELSE IF TruthyDict(sql_result) /\ TruthyDict(vector_result)
            THEN _synthesize_hybrid_response(st.query, sql_result[1],
                                             vector_result[1], llm)
            ELSE Returned(Apology)
        metadata == SynthesisMetadata(st.routing_info)
    IN  IF answer.raised
        THEN [st EXCEPT !.final_response =
                    Some(<<"Error synthesizing response: ">> \o answer.msg)]
        ELSE IF metadata.raised
        THEN [st EXCEPT !.final_response =
                    Some(<<"Error synthesizing response: ">> \o metadata.msg)]
        ELSE [st EXCEPT !.final_response = Some(answer.value),
                        !.metadata = metadata.value]

\* whether _synthesize_response calls self.llm.invoke
SynthesisReachesLlm(st) ==
    /\ TruthyDict(st.sql_result)
    /\ TruthyDict(st.vector_result)
    /\ HybridReachesLlm(st.sql_result[1], st.vector_result[1])

-----------------------------------------------------------------------------
(* MultiAgentOrchestrator.process_query *)

OptionalKeys == {"sql_result", "vector_result", "final_response", "error"}

\* the dictionary self.graph.invoke returns for the state st.  A key whose
\* value is None is reported or left out depending on the graph library:
\* both are outcomes of the call.
GraphOutput(st, keepsNone) ==
    IF keepsNone THEN st
    ELSE [k \in {j \in DOMAIN st : ~(j \in OptionalKeys /\ st[j] = None)} |-> st[k]]

\* variant of FormatFinalState: success also needs a successful engine
FormatFinalState_SuccessFromEngines(query, final_state) ==
    [query |-> query,
     answer |-> DictGet(final_state, "final_response", Some(<<"No response generated">>)),
     metadata |-> DictGet(final_state, "metadata", EmptyDict),
     routing |-> DictGet(final_state, "routing_info", EmptyDict),
     success |->
        /\ DictGet(final_state, "final_response", None) # None
        /\ \E k \in {"sql_result", "vector_result"} :
              /\ TruthyDict(DictGet(final_state, k, None))
              /\ final_state[k][1].success]
    @@ (IF TruthyDict(DictGet(final_state, "sql_result", None))
        THEN [sql_result |-> final_state.sql_result[1]] ELSE EmptyDict)
    @@ (IF TruthyDict(DictGet(final_state, "vector_result", None))
        THEN [vector_result |-> final_state.vector_result[1]] ELSE EmptyDict)

\* the "Format response" block of process_query
FormatFinalState(query, final_state) ==
    [query |-> query,
     answer |-> DictGet(final_state, "final_response", Some(<<"No response generated">>)),
     metadata |-> DictGet(final_state, "metadata", EmptyDict),
     routing |-> DictGet(final_state, "routing_info", EmptyDict),
     success |-> DictGet(final_state, "final_response", None) # None]
    @@ (IF TruthyDict(DictGet(final_state, "sql_result", None))
        THEN [sql_result |-> final_state.sql_result[1]] ELSE EmptyDict)
    @@ (IF TruthyDict(DictGet(final_state, "vector_result", None))
        THEN [vector_result |-> final_state.vector_result[1]] ELSE EmptyDict)

\* variant of OutermostHandler: the answer is the bare exception message
OutermostHandler_BareMessage(query, msg) ==
    [query |-> query,
     answer |-> Some(msg),
     metadata |-> EmptyDict,
     success |-> FALSE,
     error |-> msg]

\* the except clause of process_query
OutermostHandler(query, msg) ==
    [query |-> query,
     answer |-> Some(<<"An error occurred: ">> \o msg),
     metadata |-> EmptyDict,
     success |-> FALSE,
     error |-> msg]

-----------------------------------------------------------------------------
(* What the collaborators may do when called *)

NoOutcome == [kind |-> "none", text |-> <<>>]
NoCalls == [router |-> NoOutcome, sql |-> NoOutcome, vector |-> NoOutcome,
            llm |-> NoOutcome, invoke |-> NoOutcome]

\* self.router.route_query(query): the shipped QueryRouter, or a raise
RouterCalls(query) ==
    {[kind |-> c.kind, text |-> IF c.kind = "error" THEN c.text ELSE <<>>,
      call |-> Returned(route_query(query, c))] : c \in ChainOutcomes}
        \cup {[kind |-> "raise", text |-> m, call |-> Raised(m)] :
                m \in ExceptionMessages}

\* self.agents['sql'].process_query(query): the shipped SQLAgent, or a raise
SqlCalls(query) ==
    {[kind |-> IF validate_query(query) THEN o.kind ELSE "invalid",
      text |-> IF validate_query(query) THEN o.text ELSE <<>>,
      call |-> Returned(SQLAgent_process_query(query, o))] :
        o \in SqlExecutorOutcomes}
        \cup {[kind |-> "raise", text |-> m, call |-> Raised(m)] :
                m \in ExceptionMessages}

\* self.agents['vector'].process_query(query): the shipped VectorAgent, or a raise
VectorCalls(query) ==
    {[kind |-> IF validate_query(query) THEN o.kind ELSE "invalid",
      text |-> IF validate_query(query) THEN o.text ELSE <<>>,
      call |-> Returned(VectorAgent_process_query(query, o))] :
        o \in VectorSearchOutcomes}
        \cup {[kind |-> "raise", text |-> m, call |-> Raised(m)] :
                m \in ExceptionMessages}

\* self.llm.invoke(prompt)
LlmCalls ==
    {[kind |-> "content", text |-> t, call |-> Returned(t)] : t \in LlmContents}
        \cup {[kind |-> "raise", text |-> m, call |-> Raised(m)] :
                m \in ExceptionMessages}

Outcome(c) == [kind |-> c.kind, text |-> c.text]

-----------------------------------------------------------------------------
(* The state machine *)

WorkflowNodes == {"route", "sql_agent", "vector_agent", "synthesize"}

\* no router has been called on its own yet
NoRouting == [router |-> "none"]

\* the concurrent callers of process_query
Execs == {1, 2}

\* placeholder for the outcome of a call that was not made
NotCalled == Raised(<<"not called">>)
NoneCalled == [router |-> NotCalled, sql |-> NotCalled,
               vector |-> NotCalled, llm |-> NotCalled]

\* a caller that has not called process_query yet
IdleExec == [pc |-> "idle", query |-> <<>>, calls |-> NoneCalled,
             response |-> None, overlapped |-> FALSE]

\* no method has been called directly yet
NoCall == [fn |-> "none"]

\* variant of _initialize_agents: an empty agent dictionary is accepted
_initialize_agents_AcceptsNone(enable_sql, enable_vector, sql_init, vector_init) ==
    Returned((IF enable_sql /\ sql_init THEN {"sql"} ELSE {})
                \cup (IF enable_vector /\ vector_init THEN {"vector"} ELSE {}))

\* _initialize_agents: the keys of self.agents, or the RuntimeError;
\* sql_init and vector_init tell whether the agent's constructor returned
_initialize_agents(enable_sql, enable_vector, sql_init, vector_init) ==
    LET constructed ==
            (IF enable_sql /\ sql_init THEN {"sql"} ELSE {})
                \cup (IF enable_vector /\ vector_init THEN {"vector"} ELSE {})
    IN  IF constructed = {}
        THEN Raised(<<"No agents could be initialized">>)
        ELSE Returned(constructed)

\* the agent dictionaries of the orchestrators that can be constructed
ConstructedAgents ==
    LET outcomes == {_initialize_agents(es, ev, si, vi) :
                        es \in BOOLEAN, ev \in BOOLEAN,
                        si \in BOOLEAN, vi \in BOOLEAN}
    IN  {o.value : o \in {r \in outcomes : ~r.raised}}

\* __init__ / _initialize_agents: at least one agent was constructed
Init ==
    /\ agents \in ConstructedAgents
    /\ pc = "idle"
    /\ state = initial_state(<<>>)
    /\ response = None
    /\ trace = <<>>
    /\ env = NoCalls
    /\ routing = NoRouting
    /\ prev = None
    /\ execs = [i \in Execs |-> IdleExec]
    /\ slots = [i \in Execs |-> initial_state(<<>>)]
    /\ direct = NoCall

\* process_query(query) is called: the initial state enters the graph
ProcessQuery ==
    /\ pc \in {"idle", "done"}
    /\ \E query \in Queries : state' = initial_state(query)
    /\ pc' = "route"
    /\ response' = None
    /\ trace' = <<>>
    /\ env' = NoCalls
    /\ UNCHANGED <<agents, aux>>

\* node "route" and its conditional edge
RouteNode ==
    /\ pc = "route"
    /\ \E c \in RouterCalls(state.query) :
        LET st == _route_query(state, c.call)
        IN  /\ state' = st
            /\ pc' = RouteEdges(_routing_decision(st))
            /\ env' = [env EXCEPT !.router = Outcome(c)]
            /\ trace' = trace \o <<"route", "router.route_query">>
                          \o (IF c.call.raised THEN <<>> ELSE <<"classify">>)
    /\ UNCHANGED <<agents, response, aux>>

\* node "sql_agent" and its conditional edge
SqlAgentNode ==
    /\ pc = "sql_agent"
    /\ \E c \in SqlCalls(state.query) :
        LET available == "sql" \in agents
            st == _execute_sql_agent(state, available, c.call)
        IN  /\ state' = st
            /\ pc' = _check_if_hybrid(st)
            /\ env' = [env EXCEPT !.sql =
                          IF available THEN Outcome(c)
                          ELSE [kind |-> "unavailable", text |-> <<>>]]
            /\ trace' = trace \o <<"sql_agent">>
                          \o (IF available THEN <<"sql.process_query">> ELSE <<>>)
                          \o <<"sql_result">>
    /\ UNCHANGED <<agents, response, aux>>

\* node "vector_agent" and its edge to "synthesize"
VectorAgentNode ==
    /\ pc = "vector_agent"
    /\ \E c \in VectorCalls(state.query) :
        LET available == "vector" \in agents
            st == _execute_vector_agent(state, available, c.call)
        IN  /\ state' = st
            /\ env' = [env EXCEPT !.vector =
                          IF available THEN Outcome(c)
                          ELSE [kind |-> "unavailable", text |-> <<>>]]
            /\ trace' = trace \o <<"vector_agent">>
                          \o (IF available THEN <<"vector.process_query">> ELSE <<>>)
                          \o <<"vector_result">>
    /\ pc' = "synthesize"
    /\ UNCHANGED <<agents, response, aux>>

\* node "synthesize" and its edge to END
SynthesizeNode ==
    /\ pc = "synthesize"
    /\ \E c \in LlmCalls :
        /\ state' = _synthesize_response(state, c.call)
        /\ env' = [env EXCEPT !.llm =
                      IF SynthesisReachesLlm(state) THEN Outcome(c) ELSE NoOutcome]
        /\ trace' = trace \o <<"synthesize">>
                      \o (IF SynthesisReachesLlm(state) THEN <<"llm.invoke">> ELSE <<>>)
    /\ pc' = "end"
    /\ UNCHANGED <<agents, response, aux>>

\* self.graph.invoke returned: process_query formats and returns the response
Respond ==
    /\ pc = "end"
    /\ \E keepsNone \in BOOLEAN :
        response' = Some(FormatFinalState(state.query, GraphOutput(state, keepsNone)))
    /\ pc' = "done"
    /\ UNCHANGED <<agents, state, trace, env, aux>>

\* self.graph.invoke raised: the except clause of process_query answers
InvokeRaises ==
    /\ pc \in WorkflowNodes \cup {"end"}
    /\ \E m \in ExceptionMessages :
        /\ response' = Some(OutermostHandler(state.query, m))
        /\ env' = [env EXCEPT !.invoke = [kind |-> "raise", text |-> m]]
    /\ pc' = "done"
    /\ trace' = Append(trace, "invoke_raised")
    /\ UNCHANGED <<agents, state, aux>>

Next ==
    \/ ProcessQuery
    \/ RouteNode
    \/ SqlAgentNode
    \/ VectorAgentNode
    \/ SynthesizeNode
    \/ Respond
    \/ InvokeRaises

Spec == Init /\ [][Next]_vars

\* the workflow steps when graph.invoke itself does not fail
WorkflowNext ==
    \/ ProcessQuery
    \/ RouteNode
    \/ SqlAgentNode
    \/ VectorAgentNode
    \/ SynthesizeNode
    \/ Respond

\* graph.invoke runs the workflow to completion while every collaborator
\* call returns or raises: no node that is ready waits forever
LiveSpec ==
    /\ Init
    /\ [][WorkflowNext]_vars
    /\ WF_vars(RouteNode)
    /\ WF_vars(SqlAgentNode)
    /\ WF_vars(VectorAgentNode)
    /\ WF_vars(SynthesizeNode)
    /\ WF_vars(Respond)

-----------------------------------------------------------------------------
(* The routers called on their own.  A router keeps no state between calls *)
(* (get_routing_stats is a placeholder), so one call per behaviour covers   *)
(* every call.                                                              *)

\* QueryRouter.route_query(query) is called
QueryRouterRoute ==
    /\ routing = NoRouting
    /\ \E query \in Queries, c \in ChainOutcomes :
        routing' = [router |-> "QueryRouter",
                    query |-> query,
                    classification |-> classify_query(query, c),
                    info |-> route_query(query, c)]
    /\ UNCHANGED <<agents, pc, state, response, trace, env, prev, execs, slots, direct>>

\* QueryRouter.route_query(query) is called and the LLM's output goes through
\* the output parser
QueryRouterParse ==
    /\ routing = NoRouting
    /\ \E query \in Queries, t \in OutputTypes, c \in OutputConfidences :
        routing' = [router |-> "QueryRouter",
                    query |-> query,
                    classification |-> classify_query(query, ParsedChain(t, c)),
                    info |-> route_query(query, ParsedChain(t, c)),
                    constructed |->
                        [query_type |-> t, confidence |-> c,
                         outcome |-> QueryClassification(t, c, <<"reasoning">>,
                                                         <<"agent">>)]]
    /\ UNCHANGED <<agents, pc, state, response, trace, env, prev, execs, slots, direct>>

\* SimpleQueryRouter.route_query(query) is called
SimpleRouterRoute ==
    /\ routing = NoRouting
    /\ \E query \in SimpleQueries \cup SqlTestQueries \cup VectorTestQueries :
        routing' = [router |-> "SimpleQueryRouter",
                    query |-> query,
                    classification |-> SimpleQueryRouter_classify_query(query),
                    info |-> SimpleQueryRouter_route_query(query)]
    /\ UNCHANGED <<agents, pc, state, response, trace, env, prev, execs, slots, direct>>

RouterNext ==
    \/ QueryRouterRoute
    \/ QueryRouterParse
    \/ SimpleRouterRoute

RouterSpec == Init /\ [][RouterNext]_vars

-----------------------------------------------------------------------------
(* Successive executions on one orchestrator, one of them remembered *)

ReplayQueries == {q \in Queries : Len(q) <= 1}

\* what the classifier and the engines did in the execution that just
\* returned, and what the synthesis LLM did
ExecutionInputs ==
    [query |-> state.query,
     routing_info |-> state.routing_info,
     error |-> state.error,
     sql |-> env.sql,
     vector |-> env.vector]

ExecutionRecord ==
    [inputs |-> ExecutionInputs, llm |-> env.llm, metadata |-> response[1].metadata]

\* process_query(query) is called again; the execution that just returned
\* may be the one that is remembered
ReplayProcessQuery ==
    /\ pc \in {"idle", "done"}
    /\ \E query \in ReplayQueries : state' = initial_state(query)
    /\ \E remember \in BOOLEAN :
        prev' = IF remember /\ prev = None /\ pc = "done" /\ env.invoke.kind = "none"
                THEN Some(ExecutionRecord)
                ELSE prev
    /\ pc' = "route"
    /\ response' = None
    /\ trace' = <<>>
    /\ env' = NoCalls
    /\ UNCHANGED <<agents, routing, execs, slots, direct>>

ReplayNext ==
    \/ ReplayProcessQuery
    \/ RouteNode
    \/ SqlAgentNode
    \/ VectorAgentNode
    \/ SynthesizeNode
    \/ Respond

ReplaySpec == Init /\ [][ReplayNext]_vars

-----------------------------------------------------------------------------
(* Concurrent executions on one orchestrator: each caller calls            *)
(* process_query once and the node steps of the calls interleave           *)

ConcurQueries == {q \in Queries : Len(q) = 1}

\* the outcomes drawn for concurrent calls: one message per kind of failure
OneMessage(calls) ==
    {c \in calls : c.kind \in {"raise", "error"} => c.text = <<"boom">>}

\* variant of StateSlot: one state dictionary kept on the orchestrator
StateSlot_OnOrchestrator(i) == 1

\* the state dictionary execution i works on: initial_state is a local of
\* process_query, and graph.invoke gives every invocation its own channels
StateSlot(i) == i

InFlight(i) == execs[i].pc \notin {"idle", "done"}

ConcurProcessQuery ==
    /\ \E i \in Execs, query \in ConcurQueries :
        /\ execs[i].pc = "idle"
        /\ slots' = [slots EXCEPT ![StateSlot(i)] = initial_state(query)]
        /\ execs' = [execs EXCEPT ![i] =
                        [pc |-> "route", query |-> query, calls |-> NoneCalled,
                         response |-> None,
                         overlapped |-> \E j \in Execs \ {i} : InFlight(j)]]
    /\ UNCHANGED <<agents, pc, state, response, trace, env, routing, prev, direct>>

ConcurRouteNode ==
    /\ \E i \in Execs :
        /\ execs[i].pc = "route"
        /\ \E c \in OneMessage(RouterCalls(slots[StateSlot(i)].query)) :
            LET st == _route_query(slots[StateSlot(i)], c.call)
            IN  /\ slots' = [slots EXCEPT ![StateSlot(i)] = st]
                /\ execs' = [execs EXCEPT
                                ![i].pc = RouteEdges(_routing_decision(st)),
                                ![i].calls.router = c.call]
    /\ UNCHANGED <<agents, pc, state, response, trace, env, routing, prev, direct>>

ConcurSqlAgentNode ==
    /\ \E i \in Execs :
        /\ execs[i].pc = "sql_agent"
        /\ \E c \in OneMessage(SqlCalls(slots[StateSlot(i)].query)) :
            LET available == "sql" \in agents
                st == _execute_sql_agent(slots[StateSlot(i)], available, c.call)
            IN  /\ slots' = [slots EXCEPT ![StateSlot(i)] = st]
                /\ execs' = [execs EXCEPT
                                ![i].pc = _check_if_hybrid(st),
                                ![i].calls.sql =
                                    IF available THEN c.call ELSE NotCalled]
    /\ UNCHANGED <<agents, pc, state, response, trace, env, routing, prev, direct>>

ConcurVectorAgentNode ==
    /\ \E i \in Execs :
        /\ execs[i].pc = "vector_agent"
        /\ \E c \in OneMessage(VectorCalls(slots[StateSlot(i)].query)) :
            LET available == "vector" \in agents
                st == _execute_vector_agent(slots[StateSlot(i)], available, c.call)
            IN  /\ slots' = [slots EXCEPT ![StateSlot(i)] = st]
                /\ execs' = [execs EXCEPT
                                ![i].pc = "synthesize",
                                ![i].calls.vector =
                                    IF available THEN c.call ELSE NotCalled]
    /\ UNCHANGED <<agents, pc, state, response, trace, env, routing, prev, direct>>

ConcurSynthesizeNode ==
    /\ \E i \in Execs :
        /\ execs[i].pc = "synthesize"
        /\ \E c \in OneMessage(LlmCalls) :
            /\ slots' = [slots EXCEPT ![StateSlot(i)] =
                            _synthesize_response(slots[StateSlot(i)], c.call)]
            /\ execs' = [execs EXCEPT
                            ![i].pc = "end",
                            ![i].calls.llm =
                                IF SynthesisReachesLlm(slots[StateSlot(i)])
                                THEN c.call ELSE NotCalled]
    /\ UNCHANGED <<agents, pc, state, response, trace, env, routing, prev, direct>>

ConcurRespond ==
    /\ \E i \in Execs, keepsNone \in BOOLEAN :
        /\ execs[i].pc = "end"
        /\ execs' = [execs EXCEPT
                        ![i].pc = "done",
                        ![i].response =
                            Some(FormatFinalState(execs[i].query,
                                    GraphOutput(slots[StateSlot(i)], keepsNone)))]
    /\ UNCHANGED <<agents, pc, state, response, trace, env, routing, prev, slots, direct>>

ConcurNext ==
    \/ ConcurProcessQuery
    \/ ConcurRouteNode
    \/ ConcurSqlAgentNode
    \/ ConcurVectorAgentNode
    \/ ConcurSynthesizeNode
    \/ ConcurRespond

ConcurSpec == Init /\ [][ConcurNext]_vars

-----------------------------------------------------------------------------
(* Methods called directly, outside a process_query execution, once per    *)
(* behaviour                                                               *)

\* the results the agent nodes may leave in sql_result and vector_result
DirectQueries == {<<"x">>, <<" ">>}
SqlResults ==
    UNION {{_execute_sql_agent(initial_state(q), available, c.call).sql_result[1] :
                available \in BOOLEAN, c \in SqlCalls(q)} : q \in DirectQueries}
VectorResults ==
    UNION {{_execute_vector_agent(initial_state(q), available, c.call).vector_result[1] :
                available \in BOOLEAN, c \in VectorCalls(q)} : q \in DirectQueries}

\* agent.validate_query(obj) is called
ValidateQueryCall ==
    /\ direct = NoCall
    /\ \E obj \in ValidateArguments :
        direct' = [fn |-> "validate_query",
                   arg |-> obj,
                   outcome |-> Returned(validate_query_any(obj))]
    /\ UNCHANGED <<agents, pc, state, response, trace, env, routing, prev, execs, slots>>

\* orchestrator._synthesize_hybrid_response(query, sql_result, vector_result)
\* is called
SynthesizeHybridCall ==
    /\ direct = NoCall
    /\ \E sql_result \in SqlResults, vector_result \in VectorResults, c \in LlmCalls :
        direct' = [fn |-> "_synthesize_hybrid_response",
                   sql_result |-> sql_result,
                   vector_result |-> vector_result,
                   reaches_llm |-> HybridReachesLlm(sql_result, vector_result),
                   llm |-> Outcome(c),
                   outcome |-> _synthesize_hybrid_response(<<"x">>, sql_result,
                                                           vector_result, c.call)]
    /\ UNCHANGED <<agents, pc, state, response, trace, env, routing, prev, execs, slots>>

DirectNext ==
    \/ ValidateQueryCall
    \/ SynthesizeHybridCall

DirectSpec == Init /\ [][DirectNext]_vars

-----------------------------------------------------------------------------
(* Vocabulary of the properties *)

\* the engine set the route node recorded
Routed == DictGet(state.routing_info, "agents", <<>>)
IsHybridRouted == InList("sql", Routed) /\ InList("vector", Routed)

\* process_query returned through its normal return statement
ReturnedNormally == pc = "done" /\ env.invoke.kind = "none"

Failed(result) == result # None /\ ~result[1].success
Succeeded(result) == result # None /\ result[1].success

-----------------------------------------------------------------------------
(* C1 *)

\* C1: in an execution routed to both engines, every call of the vector
\* engine's process_query is preceded by the completed SQL step: sql_result
\* is already recorded, and the SQL engine (when the orchestrator has one)
\* was called before; the vector engine is never called first.
C1_SqlCompletesBeforeVector ==
    IsHybridRouted =>
        \A i \in DOMAIN trace :
            trace[i] = "vector.process_query" =>
                /\ state.sql_result # None
                /\ \E j \in 1..(i - 1) : trace[j] = "sql_result"
                /\ "sql" \in agents =>
                      \E j \in 1..(i - 1) : trace[j] = "sql.process_query"

C1_Witness ==
    /\ IsHybridRouted
    /\ pc = "synthesize"
    /\ InList("sql.process_query", trace)
    /\ InList("vector.process_query", trace)

-----------------------------------------------------------------------------
(* C2 *)

\* C2: for a non-empty query and every outcome of the router and the engines,
\* the returned response has a non-null answer and metadata.query_type set.
C2_AnswerAndQueryTypeSet ==
    (ReturnedNormally /\ validate_query(state.query)) =>
        /\ response[1].answer # None
        /\ "query_type" \in DOMAIN response[1].metadata

-----------------------------------------------------------------------------
(* C3 *)

\* C3: when the classification type is unknown the response has
\* metadata.agents_used = [] and the fixed apology as its answer.
C3_UnknownGivesApology ==
    (ReturnedNormally /\ state.routing_info.classification.type = "unknown") =>
        /\ "agents_used" \in DOMAIN response[1].metadata
        /\ response[1].metadata.agents_used = <<>>
        /\ response[1].answer =
              Some(<<"I couldn't process your query. Please try rephrasing.">>)

-----------------------------------------------------------------------------
(* C4 *)

\* C4: every process_query call ends by returning a response dictionary,
\* whatever the router, the engines, the synthesis LLM or the graph raised;
\* an exception escaping the graph gives success=false, the answer
\* "An error occurred: <message>" and the message in the error field.
C4_NeverRaisesToCaller ==
    pc = "done" =>
        /\ response # None
        /\ {"query", "answer", "metadata", "success"} \subseteq DOMAIN response[1]
        /\ env.invoke.kind = "raise" =>
              /\ response[1].success = FALSE
              /\ response[1].answer = Some(<<"An error occurred: ">> \o env.invoke.text)
              /\ "error" \in DOMAIN response[1]
              /\ response[1].error = env.invoke.text

C4_Witness ==
    /\ pc = "done"
    /\ env.invoke.kind = "raise"
    /\ env.sql.kind = "raise"

-----------------------------------------------------------------------------
(* C5 *)

\* C5: an engine whose process_query raised leaves a result with
\* success=false and error=<message>; in a hybrid execution the vector node
\* follows the SQL node also when the SQL result is a failure; and once an
\* engine result exists the workflow is at or past synthesize (or at the
\* pending vector node).
C5_EngineFailureDegrades ==
    /\ env.sql.kind = "raise" =>
          state.sql_result = Some([success |-> FALSE, error |-> Some(env.sql.text)])
    /\ env.vector.kind = "raise" =>
          state.vector_result = Some([success |-> FALSE, error |-> Some(env.vector.text)])
    /\ (IsHybridRouted /\ Failed(state.sql_result) /\ env.invoke.kind = "none") =>
          \/ pc = "vector_agent" /\ state.vector_result = None
          \/ InList("vector_agent", trace) /\ state.vector_result # None
    /\ ((Failed(state.sql_result) \/ Failed(state.vector_result))
            /\ env.invoke.kind = "none") =>
          \/ pc = "vector_agent" /\ state.vector_result = None
          \/ pc = "synthesize"
          \/ InList("synthesize", trace) /\ state.final_response # None

C5_Witness ==
    /\ IsHybridRouted
    /\ env.sql.kind = "raise"
    /\ InList("vector.process_query", trace)
    /\ InList("synthesize", trace)
    /\ ReturnedNormally

-----------------------------------------------------------------------------
(* C6 *)

\* C6: in a hybrid execution where the structured engine failed and the
\* semantic engine succeeded, the final answer is non-empty and carries the
\* semantic engine's answer (literally, or through the merged narrative the
\* synthesis LLM wrote from it); it is never a synthesis crash message.
C6_PartialFailureKeepsSemanticAnswer ==
    (ReturnedNormally /\ IsHybridRouted
        /\ Failed(state.sql_result) /\ Succeeded(state.vector_result)) =>
        /\ response[1].answer # None
        /\ response[1].answer[1] # <<>>
        /\ \/ Contains(response[1].answer[1], state.vector_result[1].data[1].answer)
           \/ env.llm.kind = "content" /\ response[1].answer[1] = env.llm.text
        /\ ~Contains(response[1].answer[1], <<"Error synthesizing response: ">>)

-----------------------------------------------------------------------------
(* C7 *)

\* C7: in a hybrid execution where both engines failed, the response has
\* success = false and an answer that reflects both engines' errors.
C7_BothFailReportsFailure ==
    (ReturnedNormally /\ IsHybridRouted
        /\ Failed(state.sql_result) /\ Failed(state.vector_result)) =>
        /\ response[1].success = FALSE
        /\ response[1].answer # None
        /\ Contains(response[1].answer[1], state.sql_result[1].error[1])
        /\ Contains(response[1].answer[1], state.vector_result[1].error[1])

-----------------------------------------------------------------------------
(* C8 *)

\* C8: a query that is empty after trimming is rejected before
\* classification: neither the router/classifier nor an engine is called for
\* it, and the response has success = false and an error field.
C8_EmptyQueryRejected ==
    (pc # "idle" /\ Strip(state.query) = <<>>) =>
        /\ ~InList("router.route_query", trace)
        /\ ~InList("classify", trace)
        /\ ~InList("sql.process_query", trace)
        /\ ~InList("vector.process_query", trace)
        /\ pc = "done" =>
              /\ response[1].success = FALSE
              /\ "error" \in DOMAIN response[1]

-----------------------------------------------------------------------------
(* C9 *)

\* the one engine result present, when exactly one is
OnlyResult ==
    IF state.vector_result = None THEN state.sql_result[1] ELSE state.vector_result[1]

\* C9: when exactly one engine result is present at synthesis, the final
\* answer is that engine's answer text unchanged if the result has
\* success=true, and "Error: <that engine's error>" if it has success=false.
C9_SingleEnginePassthrough ==
    (InList("synthesize", trace)
        /\ (state.sql_result = None) # (state.vector_result = None)) =>
        LET expected ==
                IF OnlyResult.success
                THEN OnlyResult.data[1].answer
                ELSE <<"Error: ">> \o OnlyResult.error[1]
        IN  /\ state.final_response = Some(expected)
            /\ ReturnedNormally => response[1].answer = Some(expected)
            /\ (ReturnedNormally /\ env.sql.kind = "output") =>
                  response[1].answer = Some(env.sql.text)
            /\ (ReturnedNormally /\ env.vector.kind = "hits") =>
                  response[1].answer = Some(env.vector.text)

C9_Witness ==
    /\ ReturnedNormally
    /\ Routed = <<"sql">>
    /\ env.sql.kind = "error"
    /\ state.vector_result = None
    /\ response[1].answer = Some(<<"Error: ", "SQL Agent error: ", "boom">>)

-----------------------------------------------------------------------------
(* C10 *)

\* C10: for a query routed only to the semantic engine whose search returned
\* an empty list, the engine reports success=true with the no-results
\* message as its answer, and process_query returns that message with
\* success = true.
C10_NoResultsMessage ==
    (ReturnedNormally /\ Routed = <<"vector">> /\ env.vector.kind = "empty") =>
        LET message ==
                <<"No videos found matching '">> \o state.query
                    \o <<"'", ".\n\nTry:\n", "- Using different keywords\n",
                         "- Removing or relaxing filters\n",
                         "- Using more general terms">>
        IN  /\ state.vector_result # None
            /\ state.vector_result[1].success = TRUE
            /\ state.vector_result[1].data # None
            /\ state.vector_result[1].data[1].answer = message
            /\ state.vector_result[1].data[1].results = <<>>
            /\ response[1].answer = Some(message)
            /\ response[1].success = TRUE

C10_Witness ==
    /\ ReturnedNormally
    /\ Routed = <<"vector">>
    /\ env.vector.kind = "empty"
    /\ state.query = <<"x">>
    /\ response[1].success

-----------------------------------------------------------------------------
(* C11 *)

EngineCalled ==
    InList("sql.process_query", trace) \/ InList("vector.process_query", trace)

\* C11: when the classification chain raises (LLM failure or malformed
\* output), classify_query returns type=unknown, confidence=0.0 and reasoning
\* "Classification failed: <cause>" without raising; route_query then gives
\* an empty engine set, no routing error is recorded, no engine is invoked
\* and the workflow goes from route to END.
C11_ClassificationFailureDegrades ==
    env.router.kind = "error" =>
        /\ state.routing_info.classification.type = "unknown"
        /\ state.routing_info.classification.confidence = 0
        /\ state.routing_info.classification.reasoning =
              <<"Classification failed: ">> \o env.router.text
        /\ state.routing_info.agents = <<>>
        /\ state.error = None
        /\ ~EngineCalled
        /\ ~InList("sql_agent", trace) /\ ~InList("vector_agent", trace)
        /\ pc \in {"end", "done"}

C11_Witness ==
    /\ env.router.kind = "error"
    /\ env.router.text = <<"timeout">>
    /\ ReturnedNormally

-----------------------------------------------------------------------------
(* C12 *)

\* C12: the engine set of route_query, in both routers, is the table
\* sql -> [sql], vector -> [vector], hybrid -> [sql, vector], unknown -> []
\* applied to the classification type; it is empty exactly when the type is
\* unknown.
C12_EngineSetFromType ==
    routing.router # "none" =>
        LET type == routing.info.classification.type
            routed == routing.info.agents
        IN  /\ type = routing.classification.query_type
            /\ type \in QueryTypes
            /\ type = "sql" => routed = <<"sql">>
            /\ type = "vector" => routed = <<"vector">>
            /\ type = "hybrid" => routed = <<"sql", "vector">>
            /\ type = "unknown" => routed = <<>>
            /\ (routed = <<>>) <=> (type = "unknown")

C12_Witness ==
    /\ routing.router = "SimpleQueryRouter"
    /\ routing.info.classification.type = "hybrid"
    /\ routing.info.agents = <<"sql", "vector">>

-----------------------------------------------------------------------------
(* C13 *)

\* C13: every response of an execution that routed at least one engine
\* carries metadata with agents_used = the routed engine set, query_type =
\* the classification type and confidence = the classification confidence,
\* also when a routed engine failed.
C13_MetadataReflectsRouting ==
    (ReturnedNormally /\ Routed # <<>>) =>
        /\ {"agents_used", "query_type", "confidence"}
              \subseteq DOMAIN response[1].metadata
        /\ response[1].metadata.agents_used = Routed
        /\ response[1].metadata.query_type = state.routing_info.classification.type
        /\ response[1].metadata.confidence =
              state.routing_info.classification.confidence

-----------------------------------------------------------------------------
(* C14 *)

\* number of occurrences of an event in the trace
Count(event) == Cardinality({i \in DOMAIN trace : trace[i] = event})

\* C14: final_response is written once, by the synthesize node, after every
\* routed engine has a recorded result; and no execution returns with
\* final_response never written.
C14_FinalResponseWrittenOnce ==
    /\ state.final_response # None =>
          /\ Count("synthesize") = 1
          /\ InList("sql", Routed) => state.sql_result # None
          /\ InList("vector", Routed) => state.vector_result # None
    /\ ReturnedNormally => state.final_response # None

-----------------------------------------------------------------------------
(* C15 *)

\* the agents_used and query_type of a metadata dictionary (None when the
\* dictionary does not have them)
RoutingView(metadata) ==
    IF {"agents_used", "query_type"} \subseteq DOMAIN metadata
    THEN Some([agents_used |-> metadata.agents_used,
               query_type |-> metadata.query_type])
    ELSE None

\* C15: an execution that replays the query of an earlier execution, with
\* the classifier and the engines doing what they did then, returns the same
\* metadata.agents_used and metadata.query_type, whatever the synthesis LLM
\* does in either execution and whatever was processed in between.
C15_ReplaySameRouting ==
    (ReturnedNormally /\ prev # None /\ prev[1].inputs = ExecutionInputs) =>
        RoutingView(response[1].metadata) = RoutingView(prev[1].metadata)

C15_Witness ==
    /\ ReturnedNormally
    /\ prev # None
    /\ prev[1].inputs = ExecutionInputs
    /\ prev[1].llm.kind = "content"
    /\ env.llm.kind = "raise"
    /\ RoutingView(response[1].metadata) # None

-----------------------------------------------------------------------------
(* C16 *)

\* the final workflow state of a query processed alone, with the
\* collaborators doing what the given calls record
Alone(query, calls) ==
    LET s1 == _route_query(initial_state(query), calls.router)
        n1 == RouteEdges(_routing_decision(s1))
        s2 == IF n1 = "sql_agent"
              THEN _execute_sql_agent(s1, "sql" \in agents, calls.sql)
              ELSE s1
        n2 == IF n1 = "sql_agent" THEN _check_if_hybrid(s2) ELSE n1
        s3 == IF n2 = "vector_agent"
              THEN _execute_vector_agent(s2, "vector" \in agents, calls.vector)
              ELSE s2
    IN  IF n1 = "end" THEN s3 ELSE _synthesize_response(s3, calls.llm)

\* C16: under every interleaving of the node steps of two concurrent
\* process_query calls, the workflow state of each call is the one its own
\* nodes wrote, and its response is the one its query gets when processed
\* alone with the same classifier, engine and LLM outcomes.
C16_ConcurrentExecutionsIsolated ==
    \A i \in Execs :
        /\ execs[i].pc \in {"end", "done"} =>
              slots[i] = Alone(execs[i].query, execs[i].calls)
        /\ execs[i].pc = "done" =>
              \E keepsNone \in BOOLEAN :
                  execs[i].response =
                      Some(FormatFinalState(execs[i].query,
                              GraphOutput(Alone(execs[i].query, execs[i].calls),
                                          keepsNone)))

C16_Witness ==
    /\ \A i \in Execs : execs[i].pc = "done"
    /\ execs[1].overlapped /\ ~execs[2].overlapped
    /\ execs[1].query # execs[2].query
    /\ slots[1].sql_result # None /\ slots[1].vector_result # None
    /\ slots[2].sql_result # None /\ slots[2].vector_result = None

-----------------------------------------------------------------------------
(* C17 *)

\* C17: within one process_query execution nothing is retried: the router's
\* route_query, and with it the classification, is invoked at most once at
\* any moment and exactly once by the time the execution returns; each
\* engine's process_query and the synthesis LLM are invoked at most once,
\* also when the call fails or raises.
C17_NothingRetried ==
    /\ Count("router.route_query") <= 1
    /\ Count("classify") <= 1
    /\ Count("sql.process_query") <= 1
    /\ Count("vector.process_query") <= 1
    /\ Count("llm.invoke") <= 1
    /\ ReturnedNormally => Count("router.route_query") = 1
    /\ (ReturnedNormally /\ env.router.kind # "raise") => Count("classify") = 1

C17_Witness ==
    /\ ReturnedNormally
    /\ IsHybridRouted
    /\ env.sql.kind = "raise"
    /\ env.vector.kind = "error"
    /\ Count("sql.process_query") = 1
    /\ Count("vector.process_query") = 1

-----------------------------------------------------------------------------
(* C18 *)

\* a hybrid execution returned, both engines succeeded and self.llm.invoke
\* raised in the merge step
MergeFailedAfterBothSucceeded ==
    /\ ReturnedNormally
    /\ IsHybridRouted
    /\ Succeeded(state.sql_result)
    /\ Succeeded(state.vector_result)
    /\ env.llm.kind = "raise"

\* the merge failure does not show in the response
MergeFailureHidden ==
    /\ response[1].success
    /\ "error" \notin DOMAIN response[1]
    /\ state.error = None
    /\ ~Contains(response[1].answer[1], env.llm.text)

\* C18 as stated: in a hybrid query where both engines succeeded and the
\* merge step raises, the final answer is
\* "Structured Analysis: <structured answer>\n\nSemantic Search: <semantic
\* answer>" and the failure is not surfaced as an error.
C18_FallbackStructuredAnalysis ==
    MergeFailedAfterBothSucceeded =>
        /\ response[1].answer =
              Some(<<"Structured Analysis: ">> \o state.sql_result[1].data[1].answer
                    \o <<"\n\nSemantic Search: ">>
                    \o state.vector_result[1].data[1].answer)
        /\ MergeFailureHidden

\* C18, amended: in a hybrid query where both engines succeeded and the
\* merge step raises, the final answer is the deterministic concatenation
\* "SQL Analysis: <structured answer>\n\nSemantic Search: <semantic answer>"
\* and the failure is not surfaced as an error.
C18_FallbackSqlAnalysis ==
    MergeFailedAfterBothSucceeded =>
        /\ response[1].answer =
              Some(<<"SQL Analysis: ">> \o state.sql_result[1].data[1].answer
                    \o <<"\n\nSemantic Search: ">>
                    \o state.vector_result[1].data[1].answer)
        /\ MergeFailureHidden

C18_Witness ==
    /\ MergeFailedAfterBothSucceeded
    /\ response[1].answer =
          Some(<<"SQL Analysis: ", "42 videos", "\n\nSemantic Search: ",
                 "3 cooking videos">>)

-----------------------------------------------------------------------------
(* C19 *)

\* what the route node leaves behind when router.route_query raised: the
\* error string and an empty engine set, and the workflow at END with no
\* engine invoked
RouteFailureRecorded ==
    /\ state.error = Some(<<"Routing failed: ">> \o env.router.text)
    /\ state.routing_info.agents = <<>>
    /\ ~EngineCalled
    /\ ~InList("sql_agent", trace) /\ ~InList("vector_agent", trace)
    /\ pc \in {"end", "done"}

\* C19: if router.route_query raises, the route node records an error
\* string in the workflow state and sets the engine set to empty; the
\* workflow goes from route directly to END without invoking any engine, and
\* the response returned by process_query carries the apologetic answer.
C19_RouteFailureGivesApology ==
    /\ (env.router.kind = "raise" /\ env.invoke.kind = "none") =>
          RouteFailureRecorded
    /\ (env.router.kind = "raise" /\ ReturnedNormally) =>
          response[1].answer = Some(Apology)

-----------------------------------------------------------------------------
(* C20 *)

\* the keywords of a list that occur in a text
KeywordsIn(keywords, text) ==
    {kw \in {keywords[i] : i \in DOMAIN keywords} : Contains(text, kw)}

\* C20: SimpleQueryRouter.classify_query, with s the number of analytical
\* keywords and v the number of discovery keywords that occur in the
\* lower-cased query, returns sql when s > v, vector when v > s, vector when
\* s = v = 0 and hybrid when s = v > 0; exactly one of the four cases
\* applies and the type unknown is never returned.
C20_SimpleClassifierCases ==
    routing.router = "SimpleQueryRouter" =>
        LET s == Cardinality(KeywordsIn(SQL_KEYWORDS, Lower(routing.query)))
            v == Cardinality(KeywordsIn(VECTOR_KEYWORDS, Lower(routing.query)))
            type == routing.classification.query_type
            cases == <<s > v, v > s, s = v /\ s = 0, s = v /\ s > 0>>
        IN  /\ cases[1] => type = "sql"
            /\ cases[2] => type = "vector"
            /\ cases[3] => type = "vector"
            /\ cases[4] => type = "hybrid"
            /\ Cardinality({i \in 1..4 : cases[i]}) = 1
            /\ type # "unknown"

C20_Witness ==
    /\ routing.router = "SimpleQueryRouter"
    /\ routing.query # Lower(routing.query)
    /\ Cardinality(KeywordsIn(SQL_KEYWORDS, Lower(routing.query))) = 1
    /\ Cardinality(KeywordsIn(VECTOR_KEYWORDS, Lower(routing.query))) = 1
    /\ routing.classification.query_type = "hybrid"

-----------------------------------------------------------------------------
(* C21 *)

\* C21: every classification of SimpleQueryRouter.classify_query has a
\* confidence (in tenths) greater than 0 and at most 7: min(7, 5 + hits) for
\* a dominant side with hits keyword hits, 6 for hybrid and 5 for the
\* default, whatever the number of hits.
C21_SimpleConfidenceBounded ==
    routing.router = "SimpleQueryRouter" =>
        LET s == Cardinality(KeywordsIn(SQL_KEYWORDS, Lower(routing.query)))
            v == Cardinality(KeywordsIn(VECTOR_KEYWORDS, Lower(routing.query)))
            hits == IF s > v THEN s ELSE v
            confidence == routing.classification.confidence
        IN  /\ confidence > 0
            /\ confidence <= 7
            /\ s # v => confidence = (IF 5 + hits < 7 THEN 5 + hits ELSE 7)
            /\ (s = v /\ s > 0) => confidence = 6
            /\ (s = v /\ s = 0) => confidence = 5

C21_Witness ==
    /\ routing.router = "SimpleQueryRouter"
    /\ Cardinality(KeywordsIn(SQL_KEYWORDS, Lower(routing.query))) = 3
    /\ Cardinality(KeywordsIn(VECTOR_KEYWORDS, Lower(routing.query))) = 0
    /\ routing.classification.confidence = 7

-----------------------------------------------------------------------------
(* C22 *)

\* C22: SimpleQueryRouter.classify_query gives type sql with a confidence
\* greater than 0 to each of the queries "How many videos are there?",
\* "Count the total views", "Top 10 channels", "Average likes per category"
\* and "Compare Music and Gaming".
C22_AnalyticalQueriesAreSql ==
    (routing.router = "SimpleQueryRouter" /\ routing.query \in SqlTestQueries) =>
        /\ routing.classification.query_type = "sql"
        /\ routing.classification.confidence > 0

-----------------------------------------------------------------------------
(* C23 *)

\* C23: SimpleQueryRouter.classify_query gives type vector with a confidence
\* greater than 0 to each of the queries "Find videos about cooking",
\* "Search for gaming content", "Videos similar to tech reviews", "Show me
\* educational videos" and "Content related to fitness", through discovery
\* keywords matched as case-insensitive substrings and not through the
\* default.
C23_DiscoveryQueriesAreVector ==
    (routing.router = "SimpleQueryRouter" /\ routing.query \in VectorTestQueries) =>
        /\ routing.classification.query_type = "vector"
        /\ routing.classification.confidence > 0
        /\ routing.classification.reasoning =
              <<"Query contains semantic search keywords">>

C23_Witness ==
    /\ routing.router = "SimpleQueryRouter"
    /\ routing.query \in VectorTestQueries
    /\ routing.query[1] = "S" /\ routing.query[2] = "e"
    /\ routing.classification.query_type = "vector"
    /\ routing.classification.confidence = 6

-----------------------------------------------------------------------------
(* C25 *)

\* C25: a QueryClassification exists only with query_type in {sql, vector,
\* hybrid, unknown} and 0 <= confidence <= 1 (0..10 in tenths): constructing
\* one with other values raises a validation error and gives no object, so
\* the classification route_query works on is well-formed in both fields.
C25_ClassificationWellFormed ==
    routing.router # "none" =>
        /\ routing.classification.query_type \in {"sql", "vector", "hybrid", "unknown"}
        /\ routing.classification.confidence \in 0..10
        /\ routing.info.classification.type = routing.classification.query_type
        /\ routing.info.classification.confidence = routing.classification.confidence
        /\ "constructed" \in DOMAIN routing =>
              LET given == routing.constructed
                  valid == /\ given.query_type \in {"sql", "vector", "hybrid", "unknown"}
                           /\ given.confidence \in 0..10
              IN  /\ given.outcome.raised <=> ~valid
                  /\ valid =>
                        /\ given.outcome.value.query_type = given.query_type
                        /\ given.outcome.value.confidence = given.confidence
                        /\ routing.classification = given.outcome.value
                  /\ ~valid =>
                        /\ routing.classification.query_type = "unknown"
                        /\ routing.classification.confidence = 0

C25_Witness ==
    /\ routing.router = "QueryRouter"
    /\ "constructed" \in DOMAIN routing
    /\ routing.constructed.query_type = "sql"
    /\ routing.constructed.confidence = 15
    /\ routing.constructed.outcome.raised
    /\ routing.classification.query_type = "unknown"

-----------------------------------------------------------------------------
(* C24 *)

\* C24: validate_query returns True exactly when its argument is a string
\* with at least one non-whitespace character; for the empty string,
\* whitespace-only strings, None and non-string values such as 123 it
\* returns False and does not raise.
C24_ValidateQuery ==
    direct.fn = "validate_query" =>
        /\ ~direct.outcome.raised
        /\ direct.outcome.value =
              (/\ direct.arg.type = "str"
               /\ \E i \in DOMAIN direct.arg.str :
                      direct.arg.str[i] \notin {" ", "\t", "\n"})

C24_Witness ==
    /\ direct.fn = "validate_query"
    /\ direct.arg.type = "str"
    /\ direct.arg.str = <<"\t", " ">>
    /\ direct.outcome = Returned(FALSE)

-----------------------------------------------------------------------------
(* C28 *)

\* the answer string of an engine result, or the default when the result
\* has no data or no answer
AnswerOf(result, default) ==
    IF /\ "data" \in DOMAIN result
       /\ result.data # None
       /\ "answer" \in DOMAIN result.data[1]
    THEN result.data[1].answer
    ELSE default

\* C28: for every pair of engine results, including a failed result whose
\* data is null or absent, _synthesize_hybrid_response never raises out of
\* its exception handler, and when it takes the fallback it returns the
\* concatenation of the two answer strings.
C28_FallbackHasBothAnswers ==
    direct.fn = "_synthesize_hybrid_response" =>
        /\ ~direct.outcome.raised
        /\ (~direct.reaches_llm \/ direct.llm.kind = "raise") =>
              direct.outcome.value =
                  <<"SQL Analysis: ">>
                      \o AnswerOf(direct.sql_result, <<"No SQL result">>)
                      \o <<"\n\nSemantic Search: ">>
                      \o AnswerOf(direct.vector_result, <<"No vector result">>)

-----------------------------------------------------------------------------
(* C26 *)

\* the engine set recorded in a workflow state
EngineSet(st) == DictGet(st.routing_info, "agents", <<>>)

\* C26: the workflow takes only the transitions of the table: route goes to
\* END on a routing error or an empty engine set, to sql_agent when the
\* engine set contains sql, to vector_agent when it is [vector]; sql_agent
\* goes to vector_agent exactly when vector is in the engine set and there
\* is no vector result, otherwise to synthesize; vector_agent goes to
\* synthesize; synthesize goes to END; and a query routed to a single engine
\* never enters the other engine's node.
C26_TransitionTable ==
    [][ env'.invoke.kind = "none" =>
          /\ pc = "route" =>
                LET failed == state'.error # None
                    engines == EngineSet(state')
                IN  /\ (pc' = "end") <=> (failed \/ engines = <<>>)
                    /\ (pc' = "sql_agent") <=> (~failed /\ InList("sql", engines))
                    /\ (pc' = "vector_agent") <=> (~failed /\ engines = <<"vector">>)
                    /\ pc' \in {"end", "sql_agent", "vector_agent"}
          /\ pc = "sql_agent" =>
                /\ (pc' = "vector_agent") <=>
                      (InList("vector", EngineSet(state')) /\ state'.vector_result = None)
                /\ pc' \in {"vector_agent", "synthesize"}
          /\ pc = "vector_agent" => pc' = "synthesize"
          /\ pc = "synthesize" => pc' = "end"
          /\ EngineSet(state') = <<"sql">> => ~InList("vector_agent", trace')
          /\ EngineSet(state') = <<"vector">> => ~InList("sql_agent", trace')
      ]_vars

C26_Witness ==
    /\ ReturnedNormally
    /\ EngineSet(state) = <<"vector">>
    /\ trace = <<"route", "router.route_query", "classify", "vector_agent",
                 "vector.process_query", "vector_result", "synthesize">>

-----------------------------------------------------------------------------
(* C27 *)

\* C27: every process_query execution terminates: the workflow started at
\* route eventually reaches END, directly from route or after synthesize,
\* and each of the nodes route, sql_agent, vector_agent and synthesize is
\* executed at most once.
C27_Terminates ==
    /\ (pc = "route") ~> (pc = "end")
    /\ [](/\ Count("route") <= 1
          /\ Count("sql_agent") <= 1
          /\ Count("vector_agent") <= 1
          /\ Count("synthesize") <= 1
          /\ pc = "end" =>
                \/ InList("synthesize", trace)
                \/ ~InList("sql_agent", trace) /\ ~InList("vector_agent", trace))

C27_Witness ==
    /\ pc = "end"
    /\ Count("route") = 1
    /\ Count("sql_agent") = 1
    /\ Count("vector_agent") = 1
    /\ Count("synthesize") = 1
    /\ env.llm.kind = "content"

-----------------------------------------------------------------------------
(* C29 *)

\* C29: on the normal return path of process_query, success is true exactly
\* when the synthesize node ran and wrote final_response, whatever the
\* engines did: a query routed to a single engine that fails returns
\* success=true with the answer "Error: <error>", and a run that goes from
\* route directly to END returns success=false.
C29_SuccessMeansSynthesized ==
    ReturnedNormally =>
        /\ response[1].success <=>
              (InList("synthesize", trace) /\ state.final_response # None)
        /\ InList("synthesize", trace) => response[1].success
        /\ ~InList("synthesize", trace) => ~response[1].success
        /\ (Len(Routed) = 1 /\ Failed(IF Routed = <<"sql">> THEN state.sql_result
                                        ELSE state.vector_result)) =>
              /\ response[1].success
              /\ response[1].answer = Some(<<"Error: ">> \o OnlyResult.error[1])

C29_Witness ==
    /\ ReturnedNormally
    /\ Routed = <<"vector">>
    /\ env.vector.kind = "raise"
    /\ response[1].success
    /\ response[1].answer = Some(<<"Error: ", "timeout">>)

-----------------------------------------------------------------------------
(* C30 *)

\* the result an agent node records for an engine the orchestrator lacks
NotAvailable(message) == [success |-> FALSE, error |-> Some(<<message>>)]

\* C30: if routing selects an engine that the orchestrator does not have,
\* the agent node records a failed result with the error "SQL Agent not
\* available" or "Vector Agent not available", without raising and without
\* calling an engine, and the workflow continues to its next node; an
\* orchestrator without any engine cannot be constructed.
C30_UnavailableEngineDegrades ==
    /\ agents # {}
    /\ \A es \in BOOLEAN, ev \in BOOLEAN, si \in BOOLEAN, vi \in BOOLEAN :
          _initialize_agents(es, ev, si, vi).raised <=>
              ~((es /\ si) \/ (ev /\ vi))
    /\ (InList("sql_agent", trace) /\ "sql" \notin agents) =>
          /\ state.sql_result = Some(NotAvailable("SQL Agent not available"))
          /\ ~InList("sql.process_query", trace)
          /\ env.invoke.kind = "none" =>
                IF InList("vector", Routed) /\ state.vector_result = None
                THEN pc = "vector_agent"
                ELSE pc \in {"synthesize", "end", "done"}
    /\ (InList("vector_agent", trace) /\ "vector" \notin agents) =>
          /\ state.vector_result = Some(NotAvailable("Vector Agent not available"))
          /\ ~InList("vector.process_query", trace)
          /\ env.invoke.kind = "none" => pc \in {"synthesize", "end", "done"}

C30_Witness ==
    /\ ReturnedNormally
    /\ agents = {"vector"}
    /\ IsHybridRouted
    /\ state.sql_result = Some(NotAvailable("SQL Agent not available"))
    /\ InList("vector.process_query", trace)
    /\ InList("synthesize", trace)

====
